---- MODULE Spec2Model ----
(***************************************************************************)
(* Model of flwr's InMemoryState (the SuperLink's in-memory task broker):  *)
(* src/py/flwr/server/superlink/state/in_memory_state.py.                   *)
(*                                                                         *)
(* Server threads call the store's methods concurrently.  Each thread has  *)
(* a program counter; one step of a thread is one statement group of the   *)
(* method it is in, split exactly where the source takes or releases       *)
(* self.lock, so that the statements the source runs outside the lock are  *)
(* steps other threads can interleave with.                                *)
(*                                                                         *)
(* Encodings.  A Python str is a sequence: "" is << >>.  str(uuid) for the *)
(* n-th UUID is <<n>>.  Optional[T] is a set with at most one element:     *)
(* None is {} and a value v is {v}.  A Python dict is the sequence of its  *)
(* (key, value) items in insertion order.                                  *)
(***************************************************************************)
EXTENDS Integers, Sequences, FiniteSets, TLC

\* ------------------------------------------------------------------ bounds
MaxUuid == 3
MaxClock == 3
MaxMsgs == 3

\* line 194: the default ping interval create_node registers a node with
PingIntervalDefault == 1000000000

Threads == {1, 2}
\* the values the 64-bit samples and the callers' arguments range over
RunIdSpace == {1}
NodeIdSpace == {1, 2}
AncestrySpace == {1, 2}

\* ------------------------------------------------------- strings and UUIDs
EmptyStr == << >>

\* str(task_id) of the n-th UUID
UuidStr(n) == <<n>>

\* UUID(s): parse a string back to the UUID it spells
UUID(s) == s[1]

\* now().isoformat() at wall-clock time c: never the empty string
IsoFormat(c) == <<"T", c>>

None == {}
Some(v) == {v}
TheValue(o) == CHOOSE v \in o : TRUE

\* ------------------------------------------------------------ Python dicts
DictKeys(d) == {d[i][1] : i \in 1..Len(d)}
DictIndex(d, k) == CHOOSE i \in 1..Len(d) : d[i][1] = k
DictGet(d, k) == d[DictIndex(d, k)][2]
DictValues(d) == [i \in 1..Len(d) |-> d[i][2]]
\* d[k] = v
DictSet(d, k, v) ==
    IF k \in DictKeys(d)
    THEN [d EXCEPT ![DictIndex(d, k)] = <<k, v>>]
    ELSE Append(d, <<k, v>>)
\* del d[k], for k in d
DictDel(d, k) ==
    LET i == DictIndex(d, k)
    IN  SubSeq(d, 1, i - 1) \o SubSeq(d, i + 1, Len(d))

SeqRange(s) == {s[i] : i \in 1..Len(s)}

\* ------------------------------------------------------------------- tasks
Driver == [node_id |-> 0, anonymous |-> TRUE]
NodeRef(n) == [node_id |-> n, anonymous |-> FALSE]

MkTask(kind, tid, run, prod, cons, deliv, anc) ==
    [kind |-> kind, task_id |-> tid, run_id |-> run,
     task |-> [producer |-> prod, consumer |-> cons,
               delivered_at |-> deliv, ancestry |-> anc]]

\* TaskIns a caller may submit: the well-formed ones, and one with each defect
GoodTaskIns ==
    {MkTask("TaskIns", EmptyStr, r, Driver, c, EmptyStr, << >>) :
        r \in RunIdSpace, c \in {Driver} \cup {NodeRef(n) : n \in NodeIdSpace}}
BadTaskIns ==
    { MkTask("TaskIns", UuidStr(1), 1, Driver, NodeRef(1), EmptyStr, << >>),
      MkTask("TaskIns", EmptyStr, 0, Driver, NodeRef(1), EmptyStr, << >>),
      MkTask("TaskIns", EmptyStr, 1, NodeRef(1), NodeRef(1), EmptyStr, << >>),
      MkTask("TaskIns", EmptyStr, 1, Driver, [node_id |-> 0, anonymous |-> FALSE],
             EmptyStr, << >>),
      MkTask("TaskIns", EmptyStr, 1, Driver, [node_id |-> 1, anonymous |-> TRUE],
             EmptyStr, << >>),
      MkTask("TaskIns", EmptyStr, 1, Driver, NodeRef(1), IsoFormat(1), << >>),
      MkTask("TaskIns", EmptyStr, 1, Driver, NodeRef(1), EmptyStr, <<UuidStr(1)>>) }
TaskInsInputs == GoodTaskIns \cup BadTaskIns

\* TaskRes a caller may submit; ancestry[0] may name any UUID, stored or not
GoodTaskRes ==
    {MkTask("TaskRes", EmptyStr, r, NodeRef(1), Driver, EmptyStr, <<UuidStr(a)>>) :
        r \in RunIdSpace, a \in AncestrySpace}
BadTaskRes ==
    { MkTask("TaskRes", UuidStr(1), 1, NodeRef(1), Driver, EmptyStr, <<UuidStr(1)>>),
      MkTask("TaskRes", EmptyStr, 0, NodeRef(1), Driver, EmptyStr, <<UuidStr(1)>>),
      MkTask("TaskRes", EmptyStr, 1, Driver, Driver, EmptyStr, <<UuidStr(1)>>),
      MkTask("TaskRes", EmptyStr, 1, NodeRef(1), Driver, IsoFormat(1), <<UuidStr(1)>>),
      MkTask("TaskRes", EmptyStr, 1, NodeRef(1), Driver, EmptyStr, << >>) }
TaskResInputs == GoodTaskRes \cup BadTaskRes

\* validate_task_ins_or_res: the list of errors, here the set of their names
validate_task_ins_or_res(t) ==
    (IF t.task_id # EmptyStr THEN {"non-empty task_id"} ELSE {})
    \cup (IF t.run_id = 0 THEN {"run_id is 0"} ELSE {})
    \cup (IF t.task.delivered_at # EmptyStr THEN {"delivered_at must be an empty str"} ELSE {})
    \cup (IF t.task.consumer.anonymous # (t.task.consumer.node_id = 0)
          THEN {"consumer anonymous and node_id disagree"} ELSE {})
    \cup (IF t.task.producer.anonymous # (t.task.producer.node_id = 0)
          THEN {"producer anonymous and node_id disagree"} ELSE {})
    \cup (IF t.kind = "TaskIns" /\ t.task.producer # Driver
          THEN {"producer is not the driver"} ELSE {})
    \cup (IF t.kind = "TaskIns" /\ t.task.ancestry # << >>
          THEN {"ancestry is not empty"} ELSE {})
    \cup (IF t.kind = "TaskRes" /\ t.task.producer.anonymous
          THEN {"producer is not a node"} ELSE {})
    \cup (IF t.kind = "TaskRes" /\ t.task.consumer # Driver
          THEN {"consumer is not the driver"} ELSE {})
    \cup (IF t.kind = "TaskRes" /\ t.task.ancestry = << >>
          THEN {"ancestry is empty"} ELSE {})

\* ------------------------------------------------------------------- state
VARIABLES
    run_ids,          \* self.run_ids
    task_ins_store,   \* self.task_ins_store
    task_res_store,   \* self.task_res_store
    lock,             \* self.lock: 0 when free, else the thread holding it
    clock,            \* the time now() reads
    uuid_ctr,         \* number of UUIDs uuid4() has produced
    pc,               \* per thread: the statement it is about to run
    fr,               \* per thread: the locals of the call it is in
    hist,             \* bookkeeping of completed calls (not program state)
    node_ids          \* self.node_ids: node_id -> <<online_until, ping_interval>>

\* the client process of flwr/client/app.py (_start_client_internal)
VARIABLES
    cpc,              \* the statement the client is about to run
    transport,        \* the transport argument
    sleep_duration,   \* sleep_duration
    node_state,       \* node_state: run_id -> context, for the registered runs
    message,          \* message, the last value receive() returned
    out_message,      \* out_message, the control reply (or None)
    context,          \* context, a reference to the run's object in node_state
    reply_message,    \* reply_message
    insecure,         \* the insecure argument
    root_certificates,\* the root_certificates argument
    clog              \* bookkeeping of the client's calls (not program state)

tlsVars == <<insecure, root_certificates>>
clientVars ==
    <<cpc, transport, sleep_duration, node_state, message, out_message, context,
      reply_message, tlsVars, clog>>

\* nothing has happened yet in the client: no message was delivered to it,
\* and the trace of its calls is empty
ClientLog0 == [msgs |-> 0, trace |-> << >>, idle_sleep |-> 0]

storeVars ==
    <<run_ids, task_ins_store, task_res_store, lock, clock, uuid_ctr, pc, fr, hist, node_ids>>

vars == <<storeVars, clientVars>>

NoTask == MkTask("none", EmptyStr, 0, Driver, Driver, EmptyStr, << >>)

\* the locals of a call, all cleared.  arg is the task as submitted, task the
\* submitted object as the call has changed it; pre_*, gone_*, stored, expect
\* and quiet record what the call saw and did, for the properties below.
Frame0 ==
    [op |-> "none", arg |-> NoTask, task |-> NoTask, key |-> None,
     node_id |-> None, limit |-> None, task_ids |-> {},
     list |-> << >>, del_ins |-> {}, del_res |-> {},
     pre_ins |-> << >>, pre_res |-> << >>, gone_ins |-> {}, gone_res |-> {},
     stored |-> FALSE, expect |-> 0, quiet |-> TRUE,
     run_id |-> 0, ping_interval |-> 0, now |-> 0,
     pre_nodes |-> << >>, post_nodes |-> << >>, pre_until |-> {},
     ret_id |-> None, ret_list |-> << >>, ret_num |-> 0,
     ret_set |-> {}, ret_bool |-> FALSE, exc |-> "none"]

Hist0 ==
    [ins_returns |-> [u \in {} |-> 0],
     res_returns |-> [u \in {} |-> 0],
     ins_ok |-> 0, pair_dels |-> 0, node_dels |-> {},
     last_until |-> {}]

\* one more call has returned each of the keys
Bump(f, keys) ==
    [u \in DOMAIN f \cup keys |->
        (IF u \in DOMAIN f THEN f[u] ELSE 0) + (IF u \in keys THEN 1 ELSE 0)]

\* InMemoryState.__init__
StoreInit ==
    /\ run_ids = {}
    /\ task_ins_store = << >>
    /\ task_res_store = << >>
    /\ lock = 0
    /\ clock = 1
    /\ uuid_ctr = 0
    /\ pc = [t \in Threads |-> "idle"]
    /\ fr = [t \in Threads |-> Frame0]
    /\ hist = Hist0
    /\ node_ids = << >>

\* the client at entry at (run_client_app or _start_client_internal), with
\* the arguments given
ClientInitArgs(at, tr, ins, certs) ==
    /\ cpc = at
    /\ transport = tr
    /\ insecure = ins
    /\ root_certificates = certs
    /\ sleep_duration = 0
    /\ node_state = << >>
    /\ message = None
    /\ out_message = None
    /\ context = None
    /\ reply_message = None
    /\ clog = ClientLog0

\* start_client with the defaults of lines 212-213 for the TLS arguments
ClientInit(tr) == ClientInitArgs("start", tr, None, None)

Init == StoreInit /\ ClientInit(None)

\* a thread between calls
AtRest(t) == pc[t] = "idle"

\* the caller takes the result (or the exception) of the call that is done
Return(t) ==
    /\ pc[t] = "done"
    /\ pc' = [pc EXCEPT ![t] = "idle"]
    /\ fr' = [fr EXCEPT ![t] = Frame0]
    /\ UNCHANGED <<node_ids, clientVars,
                 run_ids, task_ins_store, task_res_store, lock, clock, uuid_ctr, hist>>

Goto(t, to) == pc' = [pc EXCEPT ![t] = to]

\* with self.lock: (entering)
Acquire(t, from, to) ==
    /\ pc[t] = from
    /\ lock = 0
    /\ lock' = t
    /\ Goto(t, to)

\* ------------------------------------------------------------ create_run
CreateRunCall(t) ==
    /\ AtRest(t)
    /\ fr' = [fr EXCEPT ![t] = [Frame0 EXCEPT !.op = "create_run"]]
    /\ Goto(t, "cr_lock")
    /\ UNCHANGED <<node_ids, clientVars,
                 run_ids, task_ins_store, task_res_store, lock, clock, uuid_ctr, hist>>

CreateRunLock(t) ==
    /\ Acquire(t, "cr_lock", "cr_body")
    /\ UNCHANGED <<node_ids, clientVars,
                 run_ids, task_ins_store, task_res_store, clock, uuid_ctr, fr, hist>>

\* (mutant) the sampled id is returned but not added
CreateRunBodyAddsNothing(t) ==
    /\ pc[t] = "cr_body"
    /\ \E run_id \in RunIdSpace :
         /\ run_ids' = run_ids
         /\ fr' = [fr EXCEPT ![t].ret_num = IF run_id \notin run_ids THEN run_id ELSE 0]
    /\ lock' = 0
    /\ Goto(t, "done")
    /\ UNCHANGED <<node_ids, clientVars,
                 task_ins_store, task_res_store, clock, uuid_ctr, hist>>

\* the body of create_run's with-block: sample, add unless present
CreateRunBody(t) ==
    /\ pc[t] = "cr_body"
    /\ \E run_id \in RunIdSpace :
         IF run_id \notin run_ids
         THEN /\ run_ids' = run_ids \cup {run_id}
              /\ fr' = [fr EXCEPT ![t].ret_num = run_id]
         ELSE /\ run_ids' = run_ids
              /\ fr' = [fr EXCEPT ![t].ret_num = 0]
    /\ lock' = 0
    /\ Goto(t, "done")
    /\ UNCHANGED <<node_ids, clientVars,
                 task_ins_store, task_res_store, clock, uuid_ctr, hist>>

\* -------------------------------------------------------- store_task_ins
\* lines 42-48: the call and the validator
StoreTaskInsCall(t, task_ins) ==
    /\ AtRest(t)
    /\ LET errors == validate_task_ins_or_res(task_ins)
       IN  /\ fr' = [fr EXCEPT ![t] = [Frame0 EXCEPT !.op = "store_task_ins",
                                           !.arg = task_ins, !.task = task_ins]]
           /\ IF errors # {} THEN Goto(t, "done") ELSE Goto(t, "sti_run_id")
    /\ UNCHANGED <<node_ids, clientVars,
                 run_ids, task_ins_store, task_res_store, lock, clock, uuid_ctr, hist>>

\* (mutant) task_id is assigned before the run_id check instead of after it
StoreTaskInsRunIdAssignsFirst(t) ==
    /\ pc[t] = "sti_run_id"
    /\ uuid_ctr < MaxUuid
    /\ uuid_ctr' = uuid_ctr + 1
    /\ fr' = [fr EXCEPT ![t].key = Some(uuid_ctr + 1),
                        ![t].task.task_id = UuidStr(uuid_ctr + 1)]
    /\ IF fr[t].task.run_id \notin run_ids THEN Goto(t, "done") ELSE Goto(t, "sti_lock")
    /\ UNCHANGED <<node_ids, clientVars,
                 run_ids, task_ins_store, task_res_store, lock, clock, hist>>

\* lines 49-58: the run_id check, uuid4() and the assignment of task_id
StoreTaskInsRunId(t) ==
    /\ pc[t] = "sti_run_id"
    /\ IF fr[t].task.run_id \notin run_ids
       THEN /\ Goto(t, "done")
            /\ UNCHANGED <<fr, uuid_ctr>>
       ELSE /\ uuid_ctr < MaxUuid
            /\ uuid_ctr' = uuid_ctr + 1
            /\ fr' = [fr EXCEPT ![t].key = Some(uuid_ctr + 1),
                                ![t].task.task_id = UuidStr(uuid_ctr + 1)]
            /\ Goto(t, "sti_lock")
    /\ UNCHANGED <<node_ids, clientVars,
                 run_ids, task_ins_store, task_res_store, lock, clock, hist>>

StoreTaskInsLock(t) ==
    /\ Acquire(t, "sti_lock", "sti_insert")
    /\ UNCHANGED <<node_ids, clientVars,
                 run_ids, task_ins_store, task_res_store, clock, uuid_ctr, fr, hist>>

\* lines 60-63: the insertion, the release and the return
StoreTaskInsInsert(t) ==
    /\ pc[t] = "sti_insert"
    /\ task_ins_store' = DictSet(task_ins_store, TheValue(fr[t].key), fr[t].task)
    /\ fr' = [fr EXCEPT ![t].ret_id = fr[t].key, ![t].stored = TRUE]
    /\ hist' = [hist EXCEPT !.ins_ok = @ + 1]
    /\ lock' = 0
    /\ Goto(t, "done")
    /\ UNCHANGED <<node_ids, clientVars, run_ids, task_res_store, clock, uuid_ctr>>

\* -------------------------------------------------------- store_task_res
StoreTaskResCall(t, task_res) ==
    /\ AtRest(t)
    /\ LET errors == validate_task_ins_or_res(task_res)
       IN  /\ fr' = [fr EXCEPT ![t] = [Frame0 EXCEPT !.op = "store_task_res",
                                           !.arg = task_res, !.task = task_res]]
           /\ IF errors # {} THEN Goto(t, "done") ELSE Goto(t, "str_run_id")
    /\ UNCHANGED <<node_ids, clientVars,
                 run_ids, task_ins_store, task_res_store, lock, clock, uuid_ctr, hist>>

StoreTaskResRunId(t) ==
    /\ pc[t] = "str_run_id"
    /\ IF fr[t].task.run_id \notin run_ids
       THEN /\ Goto(t, "done")
            /\ UNCHANGED <<fr, uuid_ctr>>
       ELSE /\ uuid_ctr < MaxUuid
            /\ uuid_ctr' = uuid_ctr + 1
            /\ fr' = [fr EXCEPT ![t].key = Some(uuid_ctr + 1),
                                ![t].task.task_id = UuidStr(uuid_ctr + 1)]
            /\ Goto(t, "str_lock")
    /\ UNCHANGED <<node_ids, clientVars,
                 run_ids, task_ins_store, task_res_store, lock, clock, hist>>

StoreTaskResLock(t) ==
    /\ Acquire(t, "str_lock", "str_insert")
    /\ UNCHANGED <<node_ids, clientVars,
                 run_ids, task_ins_store, task_res_store, clock, uuid_ctr, fr, hist>>

StoreTaskResInsert(t) ==
    /\ pc[t] = "str_insert"
    /\ task_res_store' = DictSet(task_res_store, TheValue(fr[t].key), fr[t].task)
    /\ fr' = [fr EXCEPT ![t].ret_id = fr[t].key, ![t].stored = TRUE]
    /\ lock' = 0
    /\ Goto(t, "done")
    /\ UNCHANGED <<node_ids, clientVars, run_ids, task_ins_store, clock, uuid_ctr, hist>>

\* ---------------------------------------------------------- get_task_ins
\* "limit is not None and limit < 1"
\* (mutant) only a negative limit is rejected
BadLimitNegativeOnly(limit) == \E l \in limit : l < 0

BadLimit(limit) == \E l \in limit : l < 1

\* (mutant) the scan never stops early
LimitReachedNever(limit, list) == FALSE

\* "limit and len(list) == limit": None and 0 are falsy
LimitReached(limit, list) == \E l \in limit : l # 0 /\ Len(list) = l

\* (mutant) the targeted branch does not compare consumer.node_id
TaskInsMatchesAnyNode(task_ins, node_id) ==
    \/ /\ node_id # None
       /\ task_ins.task.consumer.anonymous = FALSE
       /\ task_ins.task.delivered_at = EmptyStr
    \/ /\ node_id = None
       /\ task_ins.task.consumer.anonymous = TRUE
       /\ task_ins.task.consumer.node_id = 0
       /\ task_ins.task.delivered_at = EmptyStr

\* the condition of lines 77-87
TaskInsMatches(task_ins, node_id) ==
    \/ /\ node_id # None
       /\ task_ins.task.consumer.anonymous = FALSE
       /\ task_ins.task.consumer.node_id = TheValue(node_id)
       /\ task_ins.task.delivered_at = EmptyStr
    \/ /\ node_id = None
       /\ task_ins.task.consumer.anonymous = TRUE
       /\ task_ins.task.consumer.node_id = 0
       /\ task_ins.task.delivered_at = EmptyStr

\* the loop of lines 75-90 over the rest of the dict's values
RECURSIVE ScanTaskIns(_, _, _, _)
ScanTaskIns(values, node_id, limit, task_ins_list) ==
    IF values = << >> THEN task_ins_list
    ELSE LET task_ins == Head(values)
             list == IF TaskInsMatches(task_ins, node_id)
                     THEN Append(task_ins_list, task_ins)
                     ELSE task_ins_list
         IN  IF LimitReached(limit, list) THEN list
             ELSE ScanTaskIns(Tail(values), node_id, limit, list)

\* task.delivered_at = delivered_at, on every object of the list
Stamp(list, delivered_at) ==
    [i \in 1..Len(list) |-> [list[i] EXCEPT !.task.delivered_at = delivered_at]]

\* (mutant) copies are stamped, the stored objects are not
StampStoreCopiesOnly(store, list, delivered_at) == store

\* the store after the objects of the list, where it still holds them, are stamped
StampStore(store, list, delivered_at) ==
    LET keys == {UUID(list[i].task_id) : i \in 1..Len(list)}
    IN  [i \in 1..Len(store) |->
            IF store[i][1] \in keys
            THEN <<store[i][1], [store[i][2] EXCEPT !.task.delivered_at = delivered_at]>>
            ELSE store[i]]

\* lines 65-70
GetTaskInsCall(t, node_id, limit) ==
    /\ AtRest(t)
    /\ LET f == [Frame0 EXCEPT !.op = "get_task_ins", !.node_id = node_id, !.limit = limit]
       IN  IF BadLimit(limit)
           THEN /\ fr' = [fr EXCEPT ![t] = [f EXCEPT !.exc = "AssertionError"]]
                /\ Goto(t, "done")
           ELSE /\ fr' = [fr EXCEPT ![t] = f]
                /\ Goto(t, "gti_lock")
    /\ UNCHANGED <<node_ids, clientVars,
                 run_ids, task_ins_store, task_res_store, lock, clock, uuid_ctr, hist>>

GetTaskInsLock(t) ==
    /\ Acquire(t, "gti_lock", "gti_scan")
    /\ UNCHANGED <<node_ids, clientVars,
                 run_ids, task_ins_store, task_res_store, clock, uuid_ctr, fr, hist>>

\* lines 74-90: the scan under the lock, then the release
GetTaskInsScan(t) ==
    /\ pc[t] = "gti_scan"
    /\ fr' = [fr EXCEPT ![t].list =
                ScanTaskIns(DictValues(task_ins_store), fr[t].node_id, fr[t].limit, << >>)]
    /\ lock' = 0
    /\ Goto(t, "gti_stamp")
    /\ UNCHANGED <<node_ids, clientVars,
                 run_ids, task_ins_store, task_res_store, clock, uuid_ctr, hist>>

\* lines 92-98: the stamping and the return
GetTaskInsStamp(t) ==
    /\ pc[t] = "gti_stamp"
    /\ LET delivered_at == IsoFormat(clock)
       IN  /\ task_ins_store' = StampStore(task_ins_store, fr[t].list, delivered_at)
           /\ fr' = [fr EXCEPT ![t].ret_list = Stamp(fr[t].list, delivered_at)]
    /\ hist' = [hist EXCEPT !.ins_returns =
                  Bump(@, {UUID(fr[t].list[i].task_id) : i \in 1..Len(fr[t].list)})]
    /\ Goto(t, "done")
    /\ UNCHANGED <<node_ids, clientVars, run_ids, task_res_store, lock, clock, uuid_ctr>>

\* ---------------------------------------------------------- get_task_res
\* (mutant) delivered replies are selected again
TaskResMatchesDelivered(task_res, task_ids) ==
    UUID(task_res.task.ancestry[1]) \in task_ids

\* the condition of lines 133-136
TaskResMatches(task_res, task_ids) ==
    /\ UUID(task_res.task.ancestry[1]) \in task_ids
    /\ task_res.task.delivered_at = EmptyStr

RECURSIVE ScanTaskRes(_, _, _, _)
ScanTaskRes(values, task_ids, limit, task_res_list) ==
    IF values = << >> THEN task_res_list
    ELSE LET task_res == Head(values)
             list == IF TaskResMatches(task_res, task_ids)
                     THEN Append(task_res_list, task_res)
                     ELSE task_res_list
         IN  IF LimitReached(limit, list) THEN list
             ELSE ScanTaskRes(Tail(values), task_ids, limit, list)

\* lines 124-127
GetTaskResCall(t, task_ids, limit) ==
    /\ AtRest(t)
    /\ LET f == [Frame0 EXCEPT !.op = "get_task_res", !.task_ids = task_ids, !.limit = limit]
       IN  IF BadLimit(limit)
           THEN /\ fr' = [fr EXCEPT ![t] = [f EXCEPT !.exc = "AssertionError"]]
                /\ Goto(t, "done")
           ELSE /\ fr' = [fr EXCEPT ![t] = f]
                /\ Goto(t, "gtr_lock")
    /\ UNCHANGED <<node_ids, clientVars,
                 run_ids, task_ins_store, task_res_store, lock, clock, uuid_ctr, hist>>

GetTaskResLock(t) ==
    /\ Acquire(t, "gtr_lock", "gtr_body")
    /\ UNCHANGED <<node_ids, clientVars,
                 run_ids, task_ins_store, task_res_store, clock, uuid_ctr, fr, hist>>

\* lines 129-147: the scan, the stamping and the return, all under the lock
GetTaskResBody(t) ==
    /\ pc[t] = "gtr_body"
    /\ LET list == ScanTaskRes(DictValues(task_res_store), fr[t].task_ids, fr[t].limit, << >>)
           delivered_at == IsoFormat(clock)
       IN  /\ task_res_store' = StampStore(task_res_store, list, delivered_at)
           /\ fr' = [fr EXCEPT ![t].list = list, ![t].pre_res = task_res_store,
                               ![t].ret_list = Stamp(list, delivered_at)]
           /\ hist' = [hist EXCEPT !.res_returns =
                         Bump(@, {UUID(list[i].task_id) : i \in 1..Len(list)})]
    /\ lock' = 0
    /\ Goto(t, "done")
    /\ UNCHANGED <<node_ids, clientVars, run_ids, task_ins_store, clock, uuid_ctr>>

\* ---------------------------------------------------------- delete_tasks
DeleteTasksCall(t, task_ids) ==
    /\ AtRest(t)
    /\ fr' = [fr EXCEPT ![t] = [Frame0 EXCEPT !.op = "delete_tasks", !.task_ids = task_ids]]
    /\ Goto(t, "dt_lock")
    /\ UNCHANGED <<node_ids, clientVars,
                 run_ids, task_ins_store, task_res_store, lock, clock, uuid_ctr, hist>>

DeleteTasksLock(t) ==
    /\ Acquire(t, "dt_lock", "dt_scan")
    /\ UNCHANGED <<node_ids, clientVars,
                 run_ids, task_ins_store, task_res_store, clock, uuid_ctr, fr, hist>>

\* lines 157-161: task_res is a delivered reply to task_ins_id
DeliveredReplyTo(task_res, task_ins_id) ==
    /\ ~(UUID(task_res.task.ancestry[1]) # task_ins_id)
    /\ ~(task_res.task.delivered_at = EmptyStr)

\* lines 155-164: the two sets the scan collects
DeleteTasksScan(t) ==
    /\ pc[t] = "dt_scan"
    /\ fr' = [fr EXCEPT
         ![t].del_ins = {task_ins_id \in fr[t].task_ids :
                           \E i \in 1..Len(task_res_store) :
                              DeliveredReplyTo(task_res_store[i][2], task_ins_id)},
         ![t].del_res = {task_res_store[i][1] : i \in
                           {j \in 1..Len(task_res_store) :
                              \E task_ins_id \in fr[t].task_ids :
                                 DeliveredReplyTo(task_res_store[j][2], task_ins_id)}},
         ![t].pre_ins = task_ins_store,
         ![t].pre_res = task_res_store]
    /\ Goto(t, "dt_del")
    /\ UNCHANGED <<node_ids, clientVars,
                 run_ids, task_ins_store, task_res_store, lock, clock, uuid_ctr, hist>>

\* the pairs a delete_tasks call has removed: the TaskIns it removed of which
\* it also removed a reply
PairsRemoved(f) ==
    {task_ins_id \in f.gone_ins :
        \E k \in f.gone_res : UUID(DictGet(f.pre_res, k).task.ancestry[1]) = task_ins_id}

\* lines 166-167: one round of the first deletion loop, in the set's order,
\* which is any order.  del on a missing key raises KeyError, which leaves
\* the with-block and the call.
DeleteTasksDelIns(t) ==
    /\ pc[t] = "dt_del"
    /\ fr[t].del_ins # {}
    /\ \E task_id \in fr[t].del_ins :
         IF task_id \in DictKeys(task_ins_store)
         THEN /\ task_ins_store' = DictDel(task_ins_store, task_id)
              /\ fr' = [fr EXCEPT ![t].del_ins = @ \ {task_id},
                                  ![t].gone_ins = @ \cup {task_id}]
              /\ UNCHANGED <<lock, pc, hist>>
         ELSE /\ fr' = [fr EXCEPT ![t].exc = "KeyError"]
              /\ hist' = [hist EXCEPT !.pair_dels = @ + Cardinality(PairsRemoved(fr[t]))]
              /\ lock' = 0
              /\ Goto(t, "done")
              /\ UNCHANGED task_ins_store
    /\ UNCHANGED <<node_ids, clientVars, run_ids, task_res_store, clock, uuid_ctr>>

\* lines 168-169: one round of the second deletion loop
DeleteTasksDelRes(t) ==
    /\ pc[t] = "dt_del"
    /\ fr[t].del_ins = {}
    /\ fr[t].del_res # {}
    /\ \E task_id \in fr[t].del_res :
         /\ task_res_store' = DictDel(task_res_store, task_id)
         /\ fr' = [fr EXCEPT ![t].del_res = @ \ {task_id},
                             ![t].gone_res = @ \cup {task_id}]
    /\ UNCHANGED <<node_ids, clientVars,
                 run_ids, task_ins_store, lock, clock, uuid_ctr, pc, hist>>

\* the end of the with-block and the return
DeleteTasksRelease(t) ==
    /\ pc[t] = "dt_del"
    /\ fr[t].del_ins = {}
    /\ fr[t].del_res = {}
    /\ hist' = [hist EXCEPT !.pair_dels = @ + Cardinality(PairsRemoved(fr[t]))]
    /\ lock' = 0
    /\ Goto(t, "done")
    /\ UNCHANGED <<node_ids, clientVars,
                 run_ids, task_ins_store, task_res_store, clock, uuid_ctr, fr>>

\* ------------------------------------------------- num_task_ins, num_task_res
NumTaskInsCall(t) ==
    /\ AtRest(t)
    /\ fr' = [fr EXCEPT ![t] = [Frame0 EXCEPT !.op = "num_task_ins"]]
    /\ Goto(t, "nti_len")
    /\ UNCHANGED <<node_ids, clientVars,
                 run_ids, task_ins_store, task_res_store, lock, clock, uuid_ctr, hist>>

\* line 176
NumTaskInsLen(t) ==
    /\ pc[t] = "nti_len"
    /\ fr' = [fr EXCEPT ![t].ret_num = Len(task_ins_store),
                        ![t].expect = hist.ins_ok - hist.pair_dels,
                        ![t].quiet = \A u \in Threads : pc[u] # "dt_del"]
    /\ Goto(t, "done")
    /\ UNCHANGED <<node_ids, clientVars,
                 run_ids, task_ins_store, task_res_store, lock, clock, uuid_ctr, hist>>

NumTaskResCall(t) ==
    /\ AtRest(t)
    /\ fr' = [fr EXCEPT ![t] = [Frame0 EXCEPT !.op = "num_task_res"]]
    /\ Goto(t, "ntr_len")
    /\ UNCHANGED <<node_ids, clientVars,
                 run_ids, task_ins_store, task_res_store, lock, clock, uuid_ctr, hist>>

\* line 183
NumTaskResLen(t) ==
    /\ pc[t] = "ntr_len"
    /\ fr' = [fr EXCEPT ![t].ret_num = Len(task_res_store)]
    /\ Goto(t, "done")
    /\ UNCHANGED <<node_ids, clientVars,
                 run_ids, task_ins_store, task_res_store, lock, clock, uuid_ctr, hist>>

\* ------------------------------------------------------------ node registry
\* a Python dict of which only the keys and the values matter: a function
Put(d, k, v) == [x \in DOMAIN d \cup {k} |-> IF x = k THEN v ELSE d[x]]

\* (mutant) the entry is not deleted
DropNothing(d, k) == d

Drop(d, k) == [x \in DOMAIN d \ {k} |-> d[x]]

\* (mutant) the entry forgets the current time
PingEntryNoClock(now, ping_interval) == <<ping_interval, ping_interval>>

\* lines 194 and 240: (time.time() + ping_interval, ping_interval)
PingEntry(now, ping_interval) == <<now + ping_interval, ping_interval>>

\* history: node_id was registered or pinged with this online_until, or
\* was deleted; the pairs <<node_id, online_until>> of the live nodes
Registered(h, node_id, online_until) ==
    {e \in h : e[1] # node_id} \cup {<<node_id, online_until>>}
Unregistered(h, node_id) == {e \in h : e[1] # node_id}

\* time passes
Tick ==
    /\ clock < MaxClock
    /\ clock' = clock + 1
    /\ UNCHANGED <<clientVars, run_ids, task_ins_store, task_res_store, lock,
                   uuid_ctr, pc, fr, hist, node_ids>>

\* lines 185-188: the call and the sample of a signed 64-bit id
CreateNodeCall(t, node_id) ==
    /\ AtRest(t)
    /\ fr' = [fr EXCEPT ![t] = [Frame0 EXCEPT !.op = "create_node", !.node_id = Some(node_id)]]
    /\ Goto(t, "cn_lock")
    /\ UNCHANGED <<clientVars, run_ids, task_ins_store, task_res_store, lock, clock,
                   uuid_ctr, hist, node_ids>>

CreateNodeLock(t) ==
    /\ Acquire(t, "cn_lock", "cn_body")
    /\ UNCHANGED <<clientVars, run_ids, task_ins_store, task_res_store, clock,
                   uuid_ctr, fr, hist, node_ids>>

\* lines 191-197
CreateNodeBody(t) ==
    /\ pc[t] = "cn_body"
    /\ LET node_id == TheValue(fr[t].node_id)
           f == [fr[t] EXCEPT !.pre_nodes = node_ids, !.pre_until = hist.last_until,
                              !.now = clock]
       IN  IF node_id \notin DOMAIN node_ids
           THEN /\ node_ids' = Put(node_ids, node_id, PingEntry(clock, PingIntervalDefault))
                /\ hist' = [hist EXCEPT !.last_until =
                              Registered(@, node_id, clock + PingIntervalDefault),
                                        !.node_dels = @ \ {node_id}]
                /\ fr' = [fr EXCEPT ![t] = [f EXCEPT !.ret_num = node_id,
                                                     !.post_nodes = node_ids']]
           ELSE /\ fr' = [fr EXCEPT ![t] = [f EXCEPT !.ret_num = 0,
                                                     !.post_nodes = node_ids]]
                /\ UNCHANGED <<node_ids, hist>>
    /\ lock' = 0
    /\ Goto(t, "done")
    /\ UNCHANGED <<clientVars, run_ids, task_ins_store, task_res_store, clock, uuid_ctr>>

\* line 199
DeleteNodeCall(t, node_id) ==
    /\ AtRest(t)
    /\ fr' = [fr EXCEPT ![t] = [Frame0 EXCEPT !.op = "delete_node", !.node_id = Some(node_id)]]
    /\ Goto(t, "dn_lock")
    /\ UNCHANGED <<clientVars, run_ids, task_ins_store, task_res_store, lock, clock,
                   uuid_ctr, hist, node_ids>>

DeleteNodeLock(t) ==
    /\ Acquire(t, "dn_lock", "dn_body")
    /\ UNCHANGED <<clientVars, run_ids, task_ins_store, task_res_store, clock,
                   uuid_ctr, fr, hist, node_ids>>

\* lines 202-204; the ValueError leaves the with-block, which releases the lock
DeleteNodeBody(t) ==
    /\ pc[t] = "dn_body"
    /\ LET node_id == TheValue(fr[t].node_id)
           f == [fr[t] EXCEPT !.pre_nodes = node_ids, !.pre_until = hist.last_until,
                              !.now = clock]
       IN  IF node_id \notin DOMAIN node_ids
           THEN /\ fr' = [fr EXCEPT ![t] = [f EXCEPT !.exc = "ValueError",
                                                     !.post_nodes = node_ids]]
                /\ UNCHANGED <<node_ids, hist>>
           ELSE /\ node_ids' = Drop(node_ids, node_id)
                /\ hist' = [hist EXCEPT !.last_until = Unregistered(@, node_id),
                                        !.node_dels = @ \cup {node_id}]
                /\ fr' = [fr EXCEPT ![t] = [f EXCEPT !.post_nodes = node_ids']]
    /\ lock' = 0
    /\ Goto(t, "done")
    /\ UNCHANGED <<clientVars, run_ids, task_ins_store, task_res_store, clock, uuid_ctr>>

\* line 206
GetNodesCall(t, run_id) ==
    /\ AtRest(t)
    /\ fr' = [fr EXCEPT ![t] = [Frame0 EXCEPT !.op = "get_nodes", !.run_id = run_id]]
    /\ Goto(t, "gn_lock")
    /\ UNCHANGED <<clientVars, run_ids, task_ins_store, task_res_store, lock, clock,
                   uuid_ctr, hist, node_ids>>

GetNodesLock(t) ==
    /\ Acquire(t, "gn_lock", "gn_body")
    /\ UNCHANGED <<clientVars, run_ids, task_ins_store, task_res_store, clock,
                   uuid_ctr, fr, hist, node_ids>>

\* (mutant) every registered node is reported, expired or not
OnlineNodesAll(current_time) == DOMAIN node_ids

\* lines 218-222: the nodes that are online at current_time
OnlineNodes(current_time) ==
    {node_id \in DOMAIN node_ids : node_ids[node_id][1] > current_time}

\* lines 215-222
GetNodesBody(t) ==
    /\ pc[t] = "gn_body"
    /\ LET f == [fr[t] EXCEPT !.pre_nodes = node_ids, !.pre_until = hist.last_until,
                              !.post_nodes = node_ids, !.now = clock,
                              !.stored = fr[t].run_id \in run_ids]
       IN  IF fr[t].run_id \notin run_ids
           THEN fr' = [fr EXCEPT ![t] = [f EXCEPT !.ret_set = {}]]
           ELSE fr' = [fr EXCEPT ![t] = [f EXCEPT !.ret_set = OnlineNodes(clock)]]
    /\ lock' = 0
    /\ Goto(t, "done")
    /\ UNCHANGED <<clientVars, run_ids, task_ins_store, task_res_store, clock,
                   uuid_ctr, hist, node_ids>>

\* line 236
AcknowledgePingCall(t, node_id, ping_interval) ==
    /\ AtRest(t)
    /\ fr' = [fr EXCEPT ![t] = [Frame0 EXCEPT !.op = "acknowledge_ping",
                                  !.node_id = Some(node_id),
                                  !.ping_interval = ping_interval]]
    /\ Goto(t, "ap_lock")
    /\ UNCHANGED <<clientVars, run_ids, task_ins_store, task_res_store, lock, clock,
                   uuid_ctr, hist, node_ids>>

AcknowledgePingLock(t) ==
    /\ Acquire(t, "ap_lock", "ap_body")
    /\ UNCHANGED <<clientVars, run_ids, task_ins_store, task_res_store, clock,
                   uuid_ctr, fr, hist, node_ids>>

\* lines 239-242
AcknowledgePingBody(t) ==
    /\ pc[t] = "ap_body"
    /\ LET node_id == TheValue(fr[t].node_id)
           ping_interval == fr[t].ping_interval
           f == [fr[t] EXCEPT !.pre_nodes = node_ids, !.pre_until = hist.last_until,
                              !.now = clock]
       IN  IF node_id \in DOMAIN node_ids
           THEN /\ node_ids' = Put(node_ids, node_id, PingEntry(clock, ping_interval))
                /\ hist' = [hist EXCEPT !.last_until =
                              Registered(@, node_id, clock + ping_interval)]
                /\ fr' = [fr EXCEPT ![t] = [f EXCEPT !.ret_bool = TRUE,
                                                     !.post_nodes = node_ids']]
           ELSE /\ fr' = [fr EXCEPT ![t] = [f EXCEPT !.ret_bool = FALSE,
                                                     !.post_nodes = node_ids]]
                /\ UNCHANGED <<node_ids, hist>>
    /\ lock' = 0
    /\ Goto(t, "done")
    /\ UNCHANGED <<clientVars, run_ids, task_ins_store, task_res_store, clock, uuid_ctr>>

\* ------------------------------------------------------------ client session
TRANSPORT_TYPE_GRPC_BIDI == "grpc-bidi"
TRANSPORT_TYPE_GRPC_RERE == "grpc-rere"
TRANSPORT_TYPE_REST == "rest"

\* the transports _init_connection accepts
TransportArgs ==
    {None, Some(TRANSPORT_TYPE_GRPC_BIDI), Some(TRANSPORT_TYPE_GRPC_RERE),
     Some(TRANSPORT_TYPE_REST)}

\* create_node and delete_node are null on the bidi stream (the default)
HasNodeOps(tr) == tr \in {Some(TRANSPORT_TYPE_GRPC_RERE), Some(TRANSPORT_TYPE_REST)}

\* what the broker can make receive return
MsgRunIds == {1, 2}
SleepSpace == {0, 2}
Messages(message_id) ==
    {[message_id |-> message_id, run_id |-> r, message_type |-> "train", sleep |-> 0] :
        r \in MsgRunIds}
    \cup {[message_id |-> message_id, run_id |-> 1, message_type |-> "reconnect",
           sleep |-> sl] : sl \in SleepSpace}

\* what a ClientApp can raise, and what it can leave in the context
Exceptions == {[kind |-> "ZeroDivisionError", msg |-> "division by zero"]}
ContextStates == {0, 1}

\* replies: the disconnect reply, the ClientApp's reply, an error reply
NoReply == [kind |-> "none", reply_to |-> 0, code |-> 0, reason |-> << >>]
DisconnectReply(m) ==
    [kind |-> "disconnect", reply_to |-> m.message_id, code |-> 0, reason |-> << >>]
AppReply(m) == [kind |-> "reply", reply_to |-> m.message_id, code |-> 0, reason |-> << >>]
create_error_reply(m, code, reason) ==
    [kind |-> "error", reply_to |-> m.message_id, code |-> code, reason |-> reason]

\* str(type(ex)) is "<class 'Kind'>"
StrType(ex) == <<"<class '", ex.kind, "'>">>

\* line 514: str(type(ex)) + ":<'" + str(ex) + "'>"
Reason(ex) == StrType(ex) \o <<":<'">> \o <<ex.msg>> \o <<"'>">>

\* the control-message handler
handle_control_message(m) ==
    IF m.message_type = "reconnect"
    THEN <<Some(DisconnectReply(m)), m.sleep>>
    ELSE <<None, 0>>

\* the trace of the client's calls
Ev(ev, id) ==
    [ev |-> ev, id |-> id, type |-> "", reply |-> NoReply, sleep |-> 0, ex |-> None,
     pre |-> 0, post |-> 0, run_id |-> 0, ref |-> 0, created |-> FALSE]
Logged(e) == [clog EXCEPT !.trace = Append(@, e)]

\* an exception leaves the transport scope and ends the process
Escapes ==
    /\ cpc' = "crashed"
    /\ clog' = Logged(Ev("exit_raise", 0))

\* lines 56-124: run_client_app, from the parsed arguments to the call of
\* _start_client_internal; sys.exit on conflicting options
CliStart ==
    /\ cpc = "cli"
    /\ IF insecure = Some(TRUE)
       THEN IF root_certificates # None
            THEN /\ cpc' = "exited"
                 /\ UNCHANGED root_certificates
            ELSE /\ cpc' = "start"
                 /\ root_certificates' = None
       ELSE /\ cpc' = "start"
            /\ UNCHANGED root_certificates
    /\ UNCHANGED <<storeVars, insecure, transport, sleep_duration, node_state, message,
                   out_message, context, reply_message, clog>>

\* lines 365-435
ClientStart ==
    /\ cpc = "start"
    /\ insecure' = IF insecure = None THEN Some(root_certificates = None) ELSE insecure
    /\ node_state' = << >>
    /\ cpc' = "outer"
    /\ UNCHANGED <<storeVars, root_certificates, transport, sleep_duration, message,
                   out_message, context, reply_message, clog>>

\* (mutant) the node-state store is made anew for every scope
OpenScopeNewNodeState(ok) ==
    /\ cpc = "outer"
    /\ sleep_duration' = 0
    /\ node_state' = << >>
    /\ IF ok
       THEN /\ cpc' = "register"
            /\ clog' = Logged(Ev("enter", 0))
       ELSE /\ cpc' = "crashed"
            /\ clog' = Logged(Ev("enter_raise", 0))
    /\ UNCHANGED <<storeVars, tlsVars, transport, message, out_message, context, reply_message>>

\* lines 437-446: the scope is entered, or entering it raises
OpenScope(ok) ==
    /\ cpc = "outer"
    /\ sleep_duration' = 0
    /\ IF ok
       THEN /\ cpc' = "register"
            /\ clog' = Logged(Ev("enter", 0))
       ELSE /\ cpc' = "crashed"
            /\ clog' = Logged(Ev("enter_raise", 0))
    /\ UNCHANGED <<storeVars, tlsVars, transport, node_state, message, out_message, context,
                   reply_message>>

\* lines 448-450
RegisterNode(ok) ==
    /\ cpc = "register"
    /\ IF HasNodeOps(transport)
       THEN IF ok
            THEN /\ cpc' = "receive"
                 /\ clog' = Logged(Ev("create_node", 0))
            ELSE /\ cpc' = "crashed"
                 /\ clog' = [clog EXCEPT !.trace =
                               @ \o <<Ev("create_node", 0), Ev("exit_raise", 0)>>]
       ELSE /\ ok
            /\ cpc' = "receive"
            /\ UNCHANGED clog
    /\ UNCHANGED <<storeVars, tlsVars, transport, sleep_duration, node_state, message, out_message,
                   context, reply_message>>

\* lines 454-455: receive returns a message
ReceiveMessage(m) ==
    /\ cpc = "receive"
    /\ clog.msgs < MaxMsgs
    /\ m.message_id = clog.msgs + 1
    /\ message' = Some(m)
    /\ cpc' = "control"
    /\ clog' = [clog EXCEPT !.msgs = @ + 1,
                            !.trace = Append(@, [Ev("receive", m.message_id) EXCEPT
                                                   !.type = m.message_type,
                                                   !.sleep = m.sleep,
                                                   !.run_id = m.run_id])]
    /\ UNCHANGED <<storeVars, tlsVars, transport, sleep_duration, node_state, out_message, context,
                   reply_message>>

\* lines 454-455: receive returns None
ReceiveNone ==
    /\ cpc = "receive"
    /\ message' = None
    /\ cpc' = "poll"
    /\ UNCHANGED <<storeVars, tlsVars, transport, sleep_duration, node_state, out_message, context,
                   reply_message, clog>>

\* line 454: receive raises
ReceiveRaises ==
    /\ cpc = "receive"
    /\ Escapes
    /\ UNCHANGED <<storeVars, tlsVars, transport, sleep_duration, node_state, message, out_message,
                   context, reply_message>>

\* line 456: the seconds of the idle sleep
IdlePollSeconds == 3

\* (mutant) a receive that returned None ends the inner loop
IdlePollBreaks ==
    /\ cpc = "poll"
    /\ cpc' = "unregister"
    /\ clog' = [clog EXCEPT !.idle_sleep = IdlePollSeconds]
    /\ UNCHANGED <<storeVars, tlsVars, transport, sleep_duration, node_state, message,
                   out_message, context, reply_message>>

\* lines 456-457: time.sleep(3), continue
IdlePoll ==
    /\ cpc = "poll"
    /\ cpc' = "receive"
    /\ clog' = [clog EXCEPT !.idle_sleep = IdlePollSeconds]
    /\ UNCHANGED <<storeVars, tlsVars, transport, sleep_duration, node_state, message,
                   out_message, context, reply_message>>

\* (mutant) a control message goes on to the application handling
HandleControlFallsThrough ==
    /\ cpc = "control"
    /\ LET r == handle_control_message(TheValue(message))
       IN  /\ out_message' = r[1]
           /\ sleep_duration' = r[2]
           /\ cpc' = "context"
    /\ UNCHANGED <<storeVars, tlsVars, transport, node_state, message, context,
                   reply_message, clog>>

\* lines 474-475
HandleControl ==
    /\ cpc = "control"
    /\ LET r == handle_control_message(TheValue(message))
       IN  /\ out_message' = r[1]
           /\ sleep_duration' = r[2]
           /\ cpc' = IF r[1] # None THEN "send_control" ELSE "context"
    /\ UNCHANGED <<storeVars, tlsVars, transport, node_state, message, context,
                   reply_message, clog>>

\* lines 476-477
SendControl(ok) ==
    /\ cpc = "send_control"
    /\ IF ok
       THEN /\ cpc' = "unregister"
            /\ clog' = Logged([Ev("send", TheValue(out_message).reply_to)
                                 EXCEPT !.reply = TheValue(out_message)])
       ELSE Escapes
    /\ UNCHANGED <<storeVars, tlsVars, transport, sleep_duration, node_state, message, out_message,
                   context, reply_message>>

\* the node-state store: run_id -> context object; an object has an
\* identity (ref) and the state the user computation keeps in it
FreshContext(ns) == [ref |-> Cardinality(DOMAIN ns) + 1, state |-> 0]
register_context(ns, run_id) ==
    IF run_id \in DOMAIN ns THEN ns ELSE Put(ns, run_id, FreshContext(ns))
retrieve_context(ns, run_id) == ns[run_id].ref
update_context(ns, run_id, ref) ==
    LET obj == CHOOSE o \in {ns[r] : r \in DOMAIN ns} : o.ref = ref
    IN  Put(ns, run_id, obj)

\* the object is changed in place: every holder of the reference sees it
MutateInPlace(ns, ref, new_state) ==
    [r \in DOMAIN ns |-> IF ns[r].ref = ref THEN [ns[r] EXCEPT !.state = new_state]
                                            ELSE ns[r]]
StateOf(ns, ref) == (CHOOSE o \in {ns[r] : r \in DOMAIN ns} : o.ref = ref).state

\* lines 480-489; context refers to the object the node-state store holds
RetrieveContext ==
    /\ cpc = "context"
    /\ LET m == TheValue(message)
       IN  /\ node_state' = register_context(node_state, m.run_id)
           /\ context' = Some(retrieve_context(node_state', m.run_id))
           /\ reply_message' = Some(create_error_reply(m, 0, <<"Unknown">>))
           /\ clog' = Logged([Ev("context", m.message_id) EXCEPT
                                 !.run_id = m.run_id,
                                 !.ref = retrieve_context(node_state', m.run_id),
                                 !.created = m.run_id \notin DOMAIN node_state])
    /\ cpc' = "app"
    /\ UNCHANGED <<storeVars, tlsVars, transport, sleep_duration, message, out_message>>

\* (mutant) an unset transport is not taken for the legacy one
LegacyTransportBidiOnly(tr) == tr = Some(TRANSPORT_TYPE_GRPC_BIDI)

\* line 506: transport in ["grpc-bidi", None]
LegacyTransport(tr) == tr \in {Some(TRANSPORT_TYPE_GRPC_BIDI), None}

\* lines 492-517: the ClientApp leaves new_state in the context, which it
\* changes in place, and returns a reply (ex = None) or raises ex
RunClientApp(new_state, ex) ==
    /\ cpc = "app"
    /\ LET m == TheValue(message)
           ref == TheValue(context)
           app == [Ev("client_app", m.message_id) EXCEPT !.pre = StateOf(node_state, ref),
                                                         !.post = new_state,
                                                         !.ex = ex,
                                                         !.run_id = m.run_id,
                                                         !.ref = ref]
           mutated == MutateInPlace(node_state, ref, new_state)
       IN  /\ node_state' = IF ex = None THEN update_context(mutated, m.run_id, ref)
                                         ELSE mutated
           /\ IF ex = None
              THEN /\ reply_message' = Some(AppReply(m))
                   /\ clog' = [clog EXCEPT !.trace =
                                 @ \o <<app, [Ev("update_context", m.message_id) EXCEPT
                                               !.run_id = m.run_id, !.ref = ref]>>]
                   /\ cpc' = "send"
              ELSE IF LegacyTransport(transport)
                   THEN /\ cpc' = "crashed"
                        /\ clog' = [clog EXCEPT !.trace =
                                      @ \o <<[app EXCEPT !.ev = "client_app_raise"],
                                             Ev("exit_raise", 0)>>]
                        /\ UNCHANGED reply_message
                   ELSE /\ reply_message' =
                              Some(create_error_reply(m, 0, Reason(TheValue(ex))))
                        /\ clog' = Logged([app EXCEPT !.ev = "client_app_raise"])
                        /\ cpc' = "send"
    /\ UNCHANGED <<storeVars, tlsVars, transport, sleep_duration, message, out_message, context>>

\* what load_client_app_fn can raise (lines 103-111)
LoadErrors == {[kind |-> "LoadClientAppError", msg |-> "not a ClientApp"]}

\* lines 492-494 and 502-517: load_client_app_fn raises ex, so the ClientApp
\* is not called; the except branch handles ex like a failure of the call
LoadClientAppRaises(ex) ==
    /\ cpc = "app"
    /\ LET m == TheValue(message)
           load == [Ev("load_raise", m.message_id) EXCEPT !.ex = Some(ex),
                                                         !.run_id = m.run_id]
       IN  IF LegacyTransport(transport)
           THEN /\ cpc' = "crashed"
                /\ clog' = [clog EXCEPT !.trace = @ \o <<load, Ev("exit_raise", 0)>>]
                /\ UNCHANGED reply_message
           ELSE /\ reply_message' = Some(create_error_reply(m, 0, Reason(ex)))
                /\ clog' = Logged(load)
                /\ cpc' = "send"
    /\ UNCHANGED <<storeVars, tlsVars, transport, sleep_duration, node_state, message,
                   out_message, context>>

\* (mutant) an unanswered message: the reply is dropped
SendReplyDropped(ok) ==
    /\ cpc = "send"
    /\ ok
    /\ cpc' = "receive"
    /\ UNCHANGED <<storeVars, tlsVars, transport, sleep_duration, node_state, message, out_message,
                   context, reply_message, clog>>

\* lines 520-521
SendReply(ok) ==
    /\ cpc = "send"
    /\ IF ok
       THEN /\ cpc' = "receive"
            /\ clog' = Logged([Ev("send", TheValue(reply_message).reply_to)
                                 EXCEPT !.reply = TheValue(reply_message)])
       ELSE Escapes
    /\ UNCHANGED <<storeVars, tlsVars, transport, sleep_duration, node_state, message, out_message,
                   context, reply_message>>

\* lines 523-525 and the end of the with-block
UnregisterNode(ok) ==
    /\ cpc = "unregister"
    /\ IF HasNodeOps(transport)
       THEN IF ok
            THEN /\ cpc' = "closed"
                 /\ clog' = [clog EXCEPT !.trace = @ \o <<Ev("delete_node", 0), Ev("exit", 0)>>]
            ELSE /\ cpc' = "crashed"
                 /\ clog' = [clog EXCEPT !.trace =
                               @ \o <<Ev("delete_node", 0), Ev("exit_raise", 0)>>]
       ELSE /\ ok
            /\ cpc' = "closed"
            /\ clog' = Logged(Ev("exit", 0))
    /\ UNCHANGED <<storeVars, tlsVars, transport, sleep_duration, node_state, message, out_message,
                   context, reply_message>>

\* (mutant) the loop reconnects whatever sleep_duration is
ShutDownNever(sd) == FALSE

\* (mutant) the loop ends whatever sleep_duration is
ShutDownAlways(sd) == TRUE

\* line 527
ShutDown(sd) == sd = 0

\* lines 527-536
AfterScope ==
    /\ cpc = "closed"
    /\ IF ShutDown(sleep_duration)
       THEN /\ cpc' = "terminated"
            /\ UNCHANGED clog
       ELSE /\ cpc' = "outer"
            /\ clog' = Logged([Ev("sleep", 0) EXCEPT !.sleep = sleep_duration])
    /\ UNCHANGED <<storeVars, tlsVars, transport, sleep_duration, node_state, message, out_message,
                   context, reply_message>>

\* ---------------------------------------------------------- specifications
\* the arguments callers pass
Limits == {None, Some(-1), Some(0), Some(1)}
NodeIdArgs == {None} \cup {Some(n) : n \in NodeIdSpace}
TaskIdArgs == SUBSET AncestrySpace

\* the steps of a thread inside a call
Step(t) ==
    \/ CreateRunLock(t) \/ CreateRunBody(t)
    \/ StoreTaskInsRunId(t) \/ StoreTaskInsLock(t) \/ StoreTaskInsInsert(t)
    \/ StoreTaskResRunId(t) \/ StoreTaskResLock(t) \/ StoreTaskResInsert(t)
    \/ GetTaskInsLock(t) \/ GetTaskInsScan(t) \/ GetTaskInsStamp(t)
    \/ GetTaskResLock(t) \/ GetTaskResBody(t)
    \/ DeleteTasksLock(t) \/ DeleteTasksScan(t) \/ DeleteTasksDelIns(t)
    \/ DeleteTasksDelRes(t) \/ DeleteTasksRelease(t)
    \/ NumTaskInsLen(t) \/ NumTaskResLen(t)
    \/ Return(t)

\* Time does not pass in the two specifications of the task store: the store
\* compares delivered_at with the empty string only, never two timestamps.

\* one caller, every argument
Next ==
    \/ CreateRunCall(1)
    \/ \E task_ins \in TaskInsInputs : StoreTaskInsCall(1, task_ins)
    \/ \E task_res \in TaskResInputs : StoreTaskResCall(1, task_res)
    \/ \E node_id \in NodeIdArgs, limit \in Limits : GetTaskInsCall(1, node_id, limit)
    \/ \E task_ids \in TaskIdArgs, limit \in Limits : GetTaskResCall(1, task_ids, limit)
    \/ \E task_ids \in TaskIdArgs : DeleteTasksCall(1, task_ids)
    \/ NumTaskInsCall(1)
    \/ NumTaskResCall(1)
    \/ Step(1)

Spec == Init /\ [][Next]_vars

\* concurrent callers: every thread may be in a call, with one argument of
\* each kind (a task for node 1, a reply to the first UUID)
ConcTaskIns == MkTask("TaskIns", EmptyStr, 1, Driver, NodeRef(1), EmptyStr, << >>)
ConcTaskRes == MkTask("TaskRes", EmptyStr, 1, NodeRef(1), Driver, EmptyStr, <<UuidStr(1)>>)

NextConc ==
    \E t \in Threads :
        \/ CreateRunCall(t)
        \/ StoreTaskInsCall(t, ConcTaskIns)
        \/ StoreTaskResCall(t, ConcTaskRes)
        \/ GetTaskInsCall(t, Some(1), None)
        \/ GetTaskResCall(t, {1}, None)
        \/ DeleteTasksCall(t, {1})
        \/ NumTaskInsCall(t)
        \/ NumTaskResCall(t)
        \/ Step(t)

SpecConc == Init /\ [][NextConc]_vars

\* the node registry: one caller, while time passes
NodeSampleSpace == {0, 1, 2}
PingIntervalArgs == {1, 2}
RunIdArgs == {1, 2}

NextNodes ==
    \/ Tick
    \/ CreateRunCall(1) \/ CreateRunLock(1) \/ CreateRunBody(1)
    \/ \E node_id \in NodeSampleSpace : CreateNodeCall(1, node_id)
    \/ CreateNodeLock(1) \/ CreateNodeBody(1)
    \/ \E node_id \in NodeSampleSpace : DeleteNodeCall(1, node_id)
    \/ DeleteNodeLock(1) \/ DeleteNodeBody(1)
    \/ \E run_id \in RunIdArgs : GetNodesCall(1, run_id)
    \/ GetNodesLock(1) \/ GetNodesBody(1)
    \/ \E node_id \in NodeSampleSpace, ping_interval \in PingIntervalArgs :
          AcknowledgePingCall(1, node_id, ping_interval)
    \/ AcknowledgePingLock(1) \/ AcknowledgePingBody(1)
    \/ Return(1)

SpecNodes == Init /\ [][NextNodes]_vars

\* the client session loop over each transport, against a broker that
\* delivers up to MaxMsgs messages
InitClient == StoreInit /\ \E tr \in TransportArgs : ClientInit(tr)

NextClient ==
    \/ ClientStart
    \/ \E ok \in BOOLEAN : OpenScope(ok)
    \/ \E ok \in BOOLEAN : RegisterNode(ok)
    \/ \E m \in Messages(clog.msgs + 1) : ReceiveMessage(m)
    \/ ReceiveNone
    \/ ReceiveRaises
    \/ IdlePoll
    \/ HandleControl
    \/ \E ok \in BOOLEAN : SendControl(ok)
    \/ RetrieveContext
    \/ \E new_state \in ContextStates, ex \in {None} \cup {Some(x) : x \in Exceptions} :
          RunClientApp(new_state, ex)
    \/ \E ex \in LoadErrors : LoadClientAppRaises(ex)
    \/ \E ok \in BOOLEAN : SendReply(ok)
    \/ \E ok \in BOOLEAN : UnregisterNode(ok)
    \/ AfterScope

SpecClient == InitClient /\ [][NextClient]_vars

\* the process keeps running: its sleeps end and its calls return or raise
SpecClientLive == SpecClient /\ WF_vars(NextClient)

\* the two ways into the session loop, with every TLS configuration: the
\* command line (run_client_app) and start_client
InsecureArgs == {None, Some(TRUE), Some(FALSE)}
RootCertificatesArgs == {None, Some("pem")}

InitStart ==
    /\ StoreInit
    /\ \E ins \in InsecureArgs, certs \in RootCertificatesArgs :
          \/ /\ ins # None
             /\ ClientInitArgs("cli", Some(TRANSPORT_TYPE_GRPC_RERE), ins, certs)
          \/ ClientInitArgs("start", None, ins, certs)

NextStart == CliStart \/ NextClient

SpecStart == InitStart /\ [][NextStart]_vars

\* ================================================================ properties
Done(t, op) == pc[t] = "done" /\ fr[t].op = op

Ancestor(task_res) == UUID(task_res.task.ancestry[1])

\* C1: delivery-once for instructions: no TaskIns is ever returned by more
\* than one get_task_ins call, whatever the interleaving of the calls.
C1_DeliveredOnce ==
    \A u \in DOMAIN hist.ins_returns : hist.ins_returns[u] <= 1

\* C2: paired deletion: when a delete_tasks call is over, normally or by an
\* exception, it has removed a TaskIns if and only if it has removed a
\* TaskRes whose ancestry[0] is that TaskIns' id.
C2_PairedDeletion ==
    \A t \in Threads : Done(t, "delete_tasks") =>
        /\ \A task_ins_id \in fr[t].gone_ins :
              \E k \in fr[t].gone_res : Ancestor(DictGet(fr[t].pre_res, k)) = task_ins_id
        /\ \A k \in fr[t].gone_res :
              Ancestor(DictGet(fr[t].pre_res, k)) \in fr[t].gone_ins

\* C3: delete_tasks removes no TaskIns whose delivered_at is still empty,
\* even when a delivered TaskRes names it.
C3_BothDelivered ==
    \A t \in Threads : Done(t, "delete_tasks") =>
        \A task_ins_id \in fr[t].gone_ins :
            DictGet(fr[t].pre_ins, task_ins_id).task.delivered_at # EmptyStr

\* the replies delete_tasks(task_ids) finds: stored, delivered, naming an id of task_ids
DeliveredReplies(store, task_ids) ==
    {store[i][1] : i \in {j \in 1..Len(store) :
        /\ Ancestor(store[j][2]) \in task_ids
        /\ store[j][2].task.delivered_at # EmptyStr}}

\* C4: after delete_tasks(S), for every id of S with a stored delivered
\* TaskRes naming it, neither that TaskRes nor the TaskIns with that id
\* remains, and the call has removed nothing else (nothing at all when no
\* delivered TaskRes names an id of S).
C4_DeleteTasksPost ==
    \A t \in Threads : Done(t, "delete_tasks") =>
        LET replies == DeliveredReplies(fr[t].pre_res, fr[t].task_ids)
        IN  /\ fr[t].gone_res = replies
            /\ fr[t].gone_ins =
                 {Ancestor(DictGet(fr[t].pre_res, k)) : k \in replies}
                    \cap DictKeys(fr[t].pre_ins)

\* every record of store that store2 still holds is the same there but for
\* delivered_at, which is not emptied
RecordsKept(store, store2) ==
    \A i \in 1..Len(store) :
        store[i][1] \in DictKeys(store2) =>
            LET a == store[i][2]
                b == DictGet(store2, store[i][1])
            IN  /\ [b EXCEPT !.task.delivered_at = a.task.delivered_at] = a
                /\ a.task.delivered_at # EmptyStr => b.task.delivered_at # EmptyStr

\* every stored record some get_task_ins / get_task_res call has returned is
\* marked delivered
ReturnedAreDelivered ==
    /\ \A u \in DOMAIN hist.ins_returns \cap DictKeys(task_ins_store) :
          DictGet(task_ins_store, u).task.delivered_at # EmptyStr
    /\ \A u \in DOMAIN hist.res_returns \cap DictKeys(task_res_store) :
          DictGet(task_res_store, u).task.delivered_at # EmptyStr

SharedAccessPcs ==
    {"cr_body", "sti_run_id", "sti_insert", "str_run_id", "str_insert",
     "gti_scan", "gti_stamp", "gtr_body", "dt_scan", "dt_del", "nti_len", "ntr_len"}

\* C6: lock discipline: a thread about to read or write the shared state
\* holds the store's mutex.
C6_LockHeld ==
    \A t \in Threads : pc[t] \in SharedAccessPcs => lock = t

\* C7: num_task_ins returns the number of store_task_ins calls that returned
\* a task id minus the number of pair-deletions delete_tasks has performed
\* (stated for the reads taken while no delete_tasks call is under way).
C7_NumTaskIns ==
    \A t \in Threads :
        Done(t, "num_task_ins") /\ fr[t].quiet => fr[t].ret_num = fr[t].expect

\* C8: rejected admission leaves no trace: a store_task_ins / store_task_res
\* call given a task that fails validation, or whose run_id is not in
\* run_ids, returns None, has inserted nothing, and has left the submitted
\* task as it was (no task_id assigned).
C8_RejectedNoTrace ==
    \A t \in Threads :
        /\ Done(t, "store_task_ins") \/ Done(t, "store_task_res")
        /\ \/ validate_task_ins_or_res(fr[t].arg) # {}
           \/ fr[t].arg.run_id \notin run_ids
        => /\ fr[t].ret_id = None
           /\ fr[t].stored = FALSE
           /\ fr[t].task = fr[t].arg

\* a malformed TaskIns of a known run was rejected by the validator, after a
\* well-formed one had been admitted
C8_Witness ==
    \E t \in Threads :
        /\ Done(t, "store_task_ins")
        /\ validate_task_ins_or_res(fr[t].arg) # {}
        /\ fr[t].arg.run_id \in run_ids
        /\ fr[t].ret_id = None
        /\ task_ins_store # << >>


\* C9: anonymous versus targeted pull: get_task_ins(None, _) returns only
\* TaskIns that were undelivered when selected and whose consumer is
\* anonymous with node_id 0; get_task_ins(n, _) returns only TaskIns that
\* were undelivered when selected and whose consumer is the non-anonymous
\* node n.
C9_AnonymousVersusTargeted ==
    \A t \in Threads : Done(t, "get_task_ins") =>
        /\ Len(fr[t].ret_list) = Len(fr[t].list)
        /\ \A i \in 1..Len(fr[t].ret_list) :
            LET consumer == fr[t].ret_list[i].task.consumer
            IN  /\ fr[t].list[i].task.delivered_at = EmptyStr
                /\ fr[t].node_id = None =>
                      consumer.anonymous = TRUE /\ consumer.node_id = 0
                /\ fr[t].node_id # None =>
                      consumer.anonymous = FALSE /\ consumer.node_id = TheValue(fr[t].node_id)

\* a targeted pull returned a task while an undelivered task for another
\* node and an undelivered anonymous task stayed in the store
C9_Witness ==
    \E t \in Threads :
        /\ Done(t, "get_task_ins")
        /\ fr[t].node_id # None
        /\ fr[t].ret_list # << >>
        /\ \E i \in 1..Len(task_ins_store) :
              /\ task_ins_store[i][2].task.consumer.anonymous
              /\ task_ins_store[i][2].task.delivered_at = EmptyStr
        /\ \E i \in 1..Len(task_ins_store) :
              /\ ~task_ins_store[i][2].task.consumer.anonymous
              /\ task_ins_store[i][2].task.consumer.node_id \notin fr[t].node_id
              /\ task_ins_store[i][2].task.delivered_at = EmptyStr

\* C10: get_task_res(task_ids, limit) returns only TaskRes that were
\* undelivered when the call scanned and whose ancestry[0] is in task_ids,
\* every returned record is stamped, and no TaskRes is returned by more than
\* one get_task_res call, whatever the interleaving of the callers.
C10_GetTaskResOnce ==
    /\ \A u \in DOMAIN hist.res_returns : hist.res_returns[u] <= 1
    /\ \A t \in Threads : Done(t, "get_task_res") =>
          /\ Len(fr[t].ret_list) = Len(fr[t].list)
          /\ \A i \in 1..Len(fr[t].list) :
                /\ Ancestor(fr[t].list[i]) \in fr[t].task_ids
                /\ fr[t].list[i] \in SeqRange(DictValues(fr[t].pre_res))
                /\ fr[t].list[i].task.delivered_at = EmptyStr
                /\ fr[t].ret_list[i].task.delivered_at # EmptyStr
                /\ UUID(fr[t].list[i].task_id) \in DictKeys(task_res_store) =>
                      DictGet(task_res_store, UUID(fr[t].list[i].task_id))
                          .task.delivered_at # EmptyStr

\* two callers asked for the replies to the same id: one got the reply, the
\* other found it already delivered and got nothing
C10_Witness ==
    \E t1, t2 \in Threads :
        /\ t1 # t2
        /\ Done(t1, "get_task_res") /\ fr[t1].ret_list # << >>
        /\ Done(t2, "get_task_res") /\ fr[t2].ret_list = << >>
        /\ \E i \in 1..Len(fr[t2].pre_res) :
              /\ Ancestor(fr[t2].pre_res[i][2]) \in fr[t2].task_ids
              /\ fr[t2].pre_res[i][2].task.delivered_at # EmptyStr
              /\ fr[t2].pre_res[i][1] = UUID(fr[t1].ret_list[1].task_id)

\* C11: a get_task_ins or get_task_res call whose limit is 0 or negative is
\* rejected with an assertion error as its first step: it returns no list,
\* and the rejecting step stamps nothing and leaves both stores as they were.
C11_BadLimitRejected ==
    [][\A t \in Threads :
          /\ fr'[t].op \in {"get_task_ins", "get_task_res"}
          /\ \E l \in fr'[t].limit : l <= 0
          => /\ pc'[t] = "done"
             /\ fr'[t].exc = "AssertionError"
             /\ fr'[t].ret_list = << >>
             /\ fr'[t].list = << >>
             /\ pc[t] = "idle" =>
                   /\ task_ins_store' = task_ins_store
                   /\ task_res_store' = task_res_store
                   /\ hist' = hist]_vars

\* a pull with limit 0 was rejected while a task it would have matched lay
\* undelivered in the store
C11_Witness ==
    \E t \in Threads :
        /\ Done(t, "get_task_ins")
        /\ fr[t].limit = Some(0)
        /\ fr[t].exc = "AssertionError"
        /\ \E i \in 1..Len(task_ins_store) :
              TaskInsMatches(task_ins_store[i][2], fr[t].node_id)

\* C12: get_nodes(r) called at time t returns the empty set when r is not in
\* run_ids; otherwise it returns exactly the registered (not deleted) nodes
\* whose most recent registration or acknowledged ping set online_until to a
\* time after t, so a node whose deadline has passed is not returned.
C12_GetNodes ==
    \A t \in Threads : Done(t, "get_nodes") =>
        IF fr[t].run_id \notin run_ids
        THEN fr[t].ret_set = {}
        ELSE fr[t].ret_set = {e[1] : e \in {x \in fr[t].pre_until : x[2] > fr[t].now}}

\* get_nodes of a known run returned a node and left out a registered node
\* whose deadline had passed
C12_Witness ==
    \E t \in Threads :
        /\ Done(t, "get_nodes")
        /\ fr[t].run_id \in run_ids
        /\ fr[t].ret_set # {}
        /\ \E n \in DOMAIN node_ids : n \notin fr[t].ret_set

\* C13: acknowledge_ping(n, p) returns TRUE exactly when n is registered,
\* and then n's entry becomes (now + p, p) while every other entry stays;
\* for an unregistered n it returns FALSE and creates no entry.
C13_AcknowledgePing ==
    \A t \in Threads : Done(t, "acknowledge_ping") =>
        LET n == TheValue(fr[t].node_id)
            pre == fr[t].pre_nodes
            post == fr[t].post_nodes
        IN  /\ node_ids = post
            /\ fr[t].ret_bool = (n \in DOMAIN pre)
            /\ DOMAIN post = DOMAIN pre
            /\ \A m \in DOMAIN pre \ {n} : post[m] = pre[m]
            /\ n \in DOMAIN pre =>
                  post[n] = <<fr[t].now + fr[t].ping_interval, fr[t].ping_interval>>

\* a ping was acknowledged after time had passed, for a node registered
\* next to another one
C13_Witness ==
    \E t \in Threads :
        /\ Done(t, "acknowledge_ping")
        /\ fr[t].ret_bool
        /\ fr[t].now > 1
        /\ \E m \in DOMAIN node_ids : m \notin fr[t].node_id

\* C14: delete_node(n) of an unregistered n raises and leaves the registry
\* as it was; of a registered n it removes exactly n's entry.  From then
\* until a create_node registers n again, no get_nodes result contains n
\* and acknowledge_ping(n, _) returns FALSE.
C14_DeleteNode ==
    \A t \in Threads :
        /\ Done(t, "delete_node") =>
              LET n == TheValue(fr[t].node_id)
                  pre == fr[t].pre_nodes
                  post == fr[t].post_nodes
              IN  /\ node_ids = post
                  /\ n \notin DOMAIN pre => fr[t].exc = "ValueError" /\ post = pre
                  /\ n \in DOMAIN pre =>
                        /\ fr[t].exc = "none"
                        /\ DOMAIN post = DOMAIN pre \ {n}
                        /\ \A m \in DOMAIN post : post[m] = pre[m]
        /\ Done(t, "get_nodes") =>
              fr[t].ret_set \subseteq {e[1] : e \in fr[t].pre_until}
        /\ Done(t, "acknowledge_ping") =>
              (fr[t].ret_bool => \E e \in fr[t].pre_until : e[1] \in fr[t].node_id)

\* a registered node was deleted while another stayed, and a later ping of
\* the deleted node was refused
C14_Witness ==
    \E t \in Threads :
        /\ Done(t, "acknowledge_ping")
        /\ ~fr[t].ret_bool
        /\ TheValue(fr[t].node_id) \in hist.node_dels
        /\ node_ids # << >>

\* C15: create_node returns 0 only when the sampled id collided with a
\* registered id, and then the registry is unchanged; every other return
\* value is an id that was not registered before the call and is registered
\* after it with online_until = now + the default ping interval.
C15_CreateNode ==
    \A t \in Threads : Done(t, "create_node") =>
        LET pre == fr[t].pre_nodes
            post == fr[t].post_nodes
            r == fr[t].ret_num
        IN  IF r = 0
            THEN TheValue(fr[t].node_id) \in DOMAIN pre /\ post = pre
            ELSE /\ r \notin DOMAIN pre
                 /\ DOMAIN post = DOMAIN pre \cup {r}
                 /\ post[r][1] = fr[t].now + PingIntervalDefault
                 /\ \A m \in DOMAIN pre : post[m] = pre[m]

\* the client's trace, and the places in it where the events named happened
Trace == clog.trace
At(evs) == {i \in 1..Len(Trace) : Trace[i].ev \in evs}
After(i) == SubSeq(Trace, i + 1, Len(Trace))
Raised(seq, k) == \E j \in 1..k : seq[j].ev \in {"exit_raise", "enter_raise"}

ScopeOf(x) ==
    LET e == CHOOSE e \in At({"enter"}) \cap 1..x : \A q \in At({"enter"}) \cap 1..x : q <= e
    IN  e..x

\* C17: on a transport with node operations, every scope exit, raised or
\* not, ends a scope in which create_node was invoked exactly once, before
\* the first receive, and delete_node exactly once.
C17_Bracketed ==
    HasNodeOps(transport) =>
        \A x \in At({"exit", "exit_raise"}) :
            /\ Cardinality(At({"create_node"}) \cap ScopeOf(x)) = 1
            /\ \A c \in At({"create_node"}) \cap ScopeOf(x) :
                  At({"receive"}) \cap ScopeOf(x) \cap 1..c = {}
            /\ Cardinality(At({"delete_node"}) \cap ScopeOf(x)) = 1

\* what follows a reconnect directive with sleep s > 0, on this transport
AfterReconnect ==
    IF HasNodeOps(transport)
    THEN <<"send", "delete_node", "exit", "sleep", "enter", "create_node">>
    ELSE <<"send", "exit", "sleep", "enter">>

\* C18: after a reconnect message with sleep s > 0 is received, and as long
\* as nothing raises, the loop's next calls are: send of the disconnect
\* reply, delete_node (once), scope exit, sleep of s seconds, entry of a new
\* scope, create_node; no receive comes before the exit, and the loop does not
\* end before it has reconnected.
C18_Reconnect ==
    \A i \in At({"receive"}) :
        Trace[i].type = "reconnect" /\ Trace[i].sleep > 0 =>
            /\ \A k \in 1..Len(After(i)) :
                  \/ Raised(After(i), k)
                  \/ k > Len(AfterReconnect)
                  \/ /\ After(i)[k].ev = AfterReconnect[k]
                     /\ After(i)[k].ev = "send" =>
                           After(i)[k].reply = DisconnectReply([message_id |-> Trace[i].id])
                     /\ After(i)[k].ev = "sleep" => After(i)[k].sleep = Trace[i].sleep
            /\ cpc = "terminated" => Len(After(i)) > Len(AfterReconnect)

\* the loop reconnected after a directive and is receiving in the new scope
C18_Witness ==
    /\ cpc = "receive"
    /\ HasNodeOps(transport)
    /\ \E i \in At({"receive"}) :
          /\ Trace[i].type = "reconnect" /\ Trace[i].sleep > 0
          /\ Len(After(i)) = Len(AfterReconnect)
          /\ ~Raised(After(i), Len(After(i)))

\* what follows a control message with sleep 0, on this transport
AfterShutdown ==
    IF HasNodeOps(transport) THEN <<"send", "delete_node", "exit">> ELSE <<"send", "exit">>

ShutdownReceived == \E i \in At({"receive"}) : Trace[i].type = "reconnect" /\ Trace[i].sleep = 0

\* C19: once a control message with sleep 0 is received the loop eventually
\* ends; unless something raises it ends after exactly: send of the control
\* reply, delete_node, scope exit, with no sleep and no further scope; and
\* the loop ends without an exception only in this way.
C19_Shutdown ==
    /\ ShutdownReceived ~> cpc \in {"terminated", "crashed"}
    /\ [](\A i \in At({"receive"}) :
            Trace[i].type = "reconnect" /\ Trace[i].sleep = 0 =>
                /\ Raised(After(i), Len(After(i))) \/ Len(After(i)) <= Len(AfterShutdown)
                /\ \A k \in 1..Len(After(i)) :
                      \/ Raised(After(i), k)
                      \/ /\ k <= Len(AfterShutdown)
                         /\ After(i)[k].ev = AfterShutdown[k]
                         /\ After(i)[k].ev = "send" =>
                               After(i)[k].reply =
                                   DisconnectReply([message_id |-> Trace[i].id]))
    /\ [](cpc = "terminated" =>
            \E i \in At({"receive"}) :
                /\ Trace[i].type = "reconnect" /\ Trace[i].sleep = 0
                /\ Len(After(i)) = Len(AfterShutdown)
                /\ ~Raised(After(i), Len(After(i))))

\* the loop ended after a reconnect and, in the second scope, a shutdown
C19_Witness ==
    /\ cpc = "terminated"
    /\ HasNodeOps(transport)
    /\ At({"sleep"}) # {}

\* C20: when the ClientApp raises on grpc-rere or rest, the node-state of
\* the run is as it was before the call, update_context is not called, the
\* next call is the send of one error reply with code 0 and the joined
\* reason, and the call after that is the next receive in the same scope.
C20_AppFailure ==
    \A i \in At({"client_app_raise"}) :
        ~LegacyTransport(transport) =>
            /\ Trace[i].post = Trace[i].pre
            /\ Len(Trace) > i =>
                  \/ Trace[i + 1].ev = "exit_raise"
                  \/ /\ Trace[i + 1].ev = "send"
                     /\ Trace[i + 1].reply =
                           create_error_reply([message_id |-> Trace[i].id], 0,
                                              Reason(TheValue(Trace[i].ex)))
            /\ Len(Trace) > i + 1 => Trace[i + 2].ev \in {"receive", "exit_raise"}

\* C21: when the ClientApp raises and the transport is grpc-bidi or unset,
\* the failure leaves the session loop: the process has ended, and after
\* the failed call there is no send, no receive and no new scope.
C21_LegacyFailure ==
    \A i \in At({"client_app_raise"}) :
        transport \in {None, Some("grpc-bidi")} =>
            /\ cpc = "crashed"
            /\ Len(After(i)) = 1
            /\ After(i)[1].ev = "exit_raise"
            /\ At({"send"}) \cap {j \in 1..Len(Trace) : Trace[j].id = Trace[i].id} = {}

\* with the transport unset, a message was answered and the ClientApp then
\* failed on the next one
C21_Witness ==
    /\ transport = None
    /\ cpc = "crashed"
    /\ At({"send"}) # {}
    /\ At({"client_app_raise"}) # {}

\* C22: a run's context is created exactly once, when the first message of
\* the run that is not a control message is handled; every later message
\* of the run, in the same scope or after a reconnect, is handed the
\* context object update_context last stored for the run (the one created);
\* two runs never get the same object.
C22_ContextPreserved ==
    \A j \in At({"context"}) :
        LET earlier == {i \in At({"context"}) : i < j /\ Trace[i].run_id = Trace[j].run_id}
            stored == {u \in At({"update_context"}) : u < j /\ Trace[u].run_id = Trace[j].run_id}
        IN  /\ Trace[j].created <=> earlier = {}
            /\ \A i \in earlier : Trace[i].ref = Trace[j].ref
            /\ \A u \in stored : (\A v \in stored : v <= u) => Trace[u].ref = Trace[j].ref
            /\ \A i \in At({"context"}) :
                  Trace[i].run_id # Trace[j].run_id => Trace[i].ref # Trace[j].ref
            /\ Trace[j].run_id \in DOMAIN node_state
            /\ node_state[Trace[j].run_id].ref = Trace[j].ref

\* a run's message was handled and its context stored, the loop
\* reconnected, and a later message of the run was handed the context
C22_Witness ==
    \E i \in At({"update_context"}), sl \in At({"sleep"}), j \in At({"context"}) :
        /\ i < sl /\ sl < j
        /\ Trace[i].run_id = Trace[j].run_id
        /\ ~Trace[j].created

\* C23: with insecure true and root certificates supplied, the session loop
\* opens no transport scope, whether it was started from the command line
\* or through start_client.
C23_ConflictingTls ==
    insecure = Some(TRUE) /\ root_certificates # None =>
        At({"enter"}) = {}

\* the events about the message with this id
Of(evs, id) == {i \in At(evs) : Trace[i].id = id}
AppCalls(id) == Of({"client_app", "client_app_raise"}, id)

\* C24 (as stated): a control message is never passed to the ClientApp and
\* causes no register_context, retrieve_context or update_context; every
\* other message received is passed to the ClientApp exactly once, by the
\* time it is answered.
C24_ControlBypass ==
    \A r \in At({"receive"}) :
        IF Trace[r].type = "reconnect"
        THEN AppCalls(Trace[r].id) \cup Of({"context", "update_context"}, Trace[r].id) = {}
        ELSE /\ Cardinality(AppCalls(Trace[r].id)) <= 1
             /\ Of({"send"}, Trace[r].id) # {} => Cardinality(AppCalls(Trace[r].id)) = 1

\* C24 (amended): a control message is never passed to the ClientApp and
\* causes no register_context, retrieve_context or update_context; every
\* other message received is passed to the ClientApp at most once, and
\* exactly once by the time it is answered unless loading the ClientApp
\* failed for it, in which case it is not passed at all.
C24_ControlBypassUnlessLoadFails ==
    \A r \in At({"receive"}) :
        IF Trace[r].type = "reconnect"
        THEN AppCalls(Trace[r].id) \cup Of({"context", "update_context"}, Trace[r].id) = {}
        ELSE /\ Cardinality(AppCalls(Trace[r].id)) <= 1
             /\ Of({"load_raise"}, Trace[r].id) # {} => AppCalls(Trace[r].id) = {}
             /\ Of({"send"}, Trace[r].id) # {} =>
                   \/ Cardinality(AppCalls(Trace[r].id)) = 1
                   \/ Of({"load_raise"}, Trace[r].id) # {}

\* a message went through the ClientApp, another was answered after the
\* ClientApp failed to load, and a control message was answered
C24_Witness ==
    /\ At({"client_app"}) # {}
    /\ \E i \in At({"load_raise"}) : Of({"send"}, Trace[i].id) # {}
    /\ \E i \in At({"send"}) : Trace[i].reply.kind = "disconnect"

\* the smaller of two numbers
Least(a, b) == IF a <= b THEN a ELSE b

\* what a pull with a limit must have done to a store in one call: it
\* returned the first records that matched, as many as the limit allows;
\* the records stamped by the call are exactly the ones returned; every
\* matching record beyond the limit is still stored and still undelivered
LimitedPull(store, store2, matching, l, ret) ==
    LET values == DictValues(store)
        hits == {i \in 1..Len(values) : matching[i]}
        firsts == {i \in hits : Cardinality({j \in hits : j <= i}) <= l}
    IN  /\ Len(ret) <= l
        /\ Len(ret) = Least(l, Cardinality(hits))
        /\ {ret[k].task_id : k \in 1..Len(ret)} = {values[i].task_id : i \in firsts}
        /\ \A k \in 1..Len(ret) : ret[k].task.delivered_at # EmptyStr
        /\ DictKeys(store2) = DictKeys(store)
        /\ \A i \in 1..Len(values) :
              LET after == DictGet(store2, UUID(values[i].task_id))
              IN  IF i \in firsts
                  THEN after.task.delivered_at # EmptyStr
                  ELSE after = values[i]

\* C25: a get_task_ins or get_task_res call with a limit returns at most
\* limit records and stamps delivered_at on exactly the records it returns;
\* the matching records beyond the limit stay stored and undelivered, so
\* that a later call finds them.
C25_LimitedPull ==
    [][\A t \in Threads : \A l \in fr[t].limit :
          /\ pc[t] = "gti_stamp" /\ pc'[t] = "done" =>
                LimitedPull(task_ins_store, task_ins_store',
                            [i \in 1..Len(task_ins_store) |->
                                TaskInsMatches(task_ins_store[i][2], fr[t].node_id)],
                            l, fr'[t].ret_list)
          /\ pc[t] = "gtr_body" /\ pc'[t] = "done" =>
                LimitedPull(task_res_store, task_res_store',
                            [i \in 1..Len(task_res_store) |->
                                TaskResMatches(task_res_store[i][2], fr[t].task_ids)],
                            l, fr'[t].ret_list)]_vars

\* a pull with limit 1 returned one record and left a second matching
\* record undelivered; the next pull with limit 1 then returned that one
C25_Witness ==
    \E t \in Threads :
        /\ Done(t, "get_task_ins")
        /\ fr[t].limit = Some(1)
        /\ Len(fr[t].ret_list) = 1
        /\ \E u \in DOMAIN hist.ins_returns :
              /\ <<u>> # fr[t].ret_list[1].task_id
              /\ hist.ins_returns[u] = 1
              /\ u \in DictKeys(task_ins_store)
              /\ DictGet(task_ins_store, u).task.consumer = fr[t].ret_list[1].task.consumer
        /\ \A i \in 1..Len(task_ins_store) :
              ~TaskInsMatches(task_ins_store[i][2], fr[t].node_id)

\* C26: a well-formed TaskRes of a known run is admitted whether or not its
\* ancestry[0] names a stored TaskIns, and every get_task_res and
\* delete_tasks call still ends without an exception (a rejected limit
\* aside) and with TaskIns and TaskRes removed in pairs only.
C26_OrphanReplies ==
    \A t \in Threads :
        /\ Done(t, "store_task_res") =>
              (validate_task_ins_or_res(fr[t].arg) = {} /\ fr[t].arg.run_id \in run_ids
                  => fr[t].ret_id # None /\ fr[t].stored)
        /\ Done(t, "get_task_res") =>
              (fr[t].exc # "none" => \E l \in fr[t].limit : l < 1)
        /\ Done(t, "delete_tasks") =>
              /\ fr[t].exc = "none"
              /\ \A task_ins_id \in fr[t].gone_ins :
                    \E k \in fr[t].gone_res : Ancestor(DictGet(fr[t].pre_res, k)) = task_ins_id
              /\ \A k \in fr[t].gone_res :
                    Ancestor(DictGet(fr[t].pre_res, k)) \in fr[t].gone_ins

\* the run ids of the stored tasks
StoredRunIds(store) == {store[i][2].run_id : i \in 1..Len(store)}

\* a create_run call ends in this step
CreateRunEnds(t) == pc[t] = "cr_body" /\ pc'[t] = "done"

\* no step removes a run id, only create_run changes run_ids, and every
\* stored task has a run id of run_ids
RunIdsKept ==
    /\ run_ids \subseteq run_ids'
    /\ (\A t \in Threads : ~CreateRunEnds(t)) => run_ids' = run_ids
    /\ StoredRunIds(task_ins_store') \cup StoredRunIds(task_res_store') \subseteq run_ids'

\* C27 (as stated): every create_run call adds exactly one run id that was
\* not in run_ids and returns it; no operation removes a run id; every
\* stored task has a run id that is in run_ids.
C27_RunIdsGrow ==
    [][/\ RunIdsKept
       /\ \A t \in Threads : CreateRunEnds(t) =>
             \E r \in run_ids' \ run_ids :
                 run_ids' = run_ids \cup {r} /\ fr'[t].ret_num = r]_vars

\* C27 (amended): a create_run call either adds exactly one run id that was
\* not in run_ids and returns it, or, when the sampled id is already in
\* run_ids, adds nothing and returns 0; no operation removes a run id; every
\* stored task has a run id that is in run_ids.
C27_RunIdsGrowUnlessCollision ==
    [][/\ RunIdsKept
       /\ \A t \in Threads : CreateRunEnds(t) =>
             \/ \E r \in run_ids' \ run_ids :
                   run_ids' = run_ids \cup {r} /\ fr'[t].ret_num = r
             \/ run_ids' = run_ids /\ run_ids # {} /\ fr'[t].ret_num = 0]_vars

\* a second create_run sampled the id of the first and returned 0, while
\* a task admitted under that id is stored
C27_Witness ==
    \E t \in Threads :
        /\ Done(t, "create_run")
        /\ fr[t].ret_num = 0
        /\ run_ids # {}
        /\ task_ins_store # << >>

\* C28: when receive returns None, that step and the next one send
\* nothing, do not call the ClientApp, leave the node-state alone and keep
\* the scope open: the trace of calls does not grow, the loop sleeps the
\* fixed three seconds and is then about to call receive again.
C28_IdlePoll ==
    [][/\ cpc = "receive" /\ message' = None /\ cpc' # "crashed" =>
             /\ cpc' = "poll"
             /\ clog'.trace = clog.trace
             /\ node_state' = node_state
       /\ cpc = "poll" =>
             /\ cpc' = "receive"
             /\ clog'.trace = clog.trace
             /\ clog'.idle_sleep = 3
             /\ node_state' = node_state
             /\ message' = None]_vars

\* after a message was answered, receive returned None and the loop is in
\* its idle sleep, the scope still open
C28_Witness ==
    /\ cpc = "poll"
    /\ At({"send"}) # {}
    /\ At({"context"}) # {}
    /\ \A x \in At({"exit", "exit_raise", "delete_node"}) : \E e \in At({"enter"}) : e > x

\* C29: whatever the interleaving of get_task_ins with delete_tasks, every
\* TaskIns that get_task_ins stamps as delivered and returns is in
\* task_ins_store at the moment of the stamping: none of them has been
\* removed by delete_tasks since the scan.
C29_ReturnedStillStored ==
    [][\A t \in Threads :
          pc[t] = "gti_stamp" /\ pc'[t] = "done" =>
             \A i \in 1..Len(fr'[t].ret_list) :
                UUID(fr'[t].ret_list[i].task_id) \in DictKeys(task_ins_store)]_vars

====
